---- MODULE Spec2Model ----
(***************************************************************************)
(* Model of the job orchestration of the summarizer repository:            *)
(*   - app.py        poll_transcription (bounded poller, single-job mode)  *)
(*   - app_fixed.py  poll_transcription (container-mode poller) and        *)
(*                   get_results (files listing and text extraction)       *)
(* The remote services are the environment: every response they can give   *)
(* is drawn from a small set at the step that issues the request.          *)
(***************************************************************************)
EXTENDS Integers, Sequences, FiniteSets, TLC

VARIABLES
    program,            \* which code runs: "app", "fixed", "extract" or "loop"
    pc,                 \* position of the run
    max_poll_attempts,  \* app.py Config.max_poll_attempts
    poll_interval,      \* app.py Config.poll_interval, in seconds
    attempts,           \* app.py poll_transcription local `attempts`
    requests,           \* ghost: status requests issued so far
    sleeps,             \* ghost: calls of time.sleep made by the poller
    waited,             \* ghost: seconds the poller has slept in total
    last,               \* the response to the latest status request
    observed,           \* ghost: what app.py's loop logged per status request
    result,             \* the value returned by the poll (URL or mapping)
    error,              \* the exception that left the poll
    files,              \* app_fixed.py get_results local `files`
    fi,                 \* index of the next entry of `files` to process
    all_transcriptions, \* app_fixed.py get_results local `all_transcriptions`
    fetches,            \* ghost: entries whose content was requested
    results_response,   \* the response to the latest content request
    env,                \* which configuration the environment variables hold
    submissions,        \* ghost: submission requests issued, with their answers
    sent,               \* ghost: summarization requests issued, text and answer
    summary,            \* the summary the latest summarization call returned
    exit_code,          \* exit status of the process, None while it runs
    json_texts,         \* app.py main_loop local `json_texts`
    ji,                 \* index of the next item of `json_texts`
    success_count,      \* app.py main_loop local `success_count`
    cycles              \* ghost: cycles main_loop has started

vars == << program, pc, max_poll_attempts, poll_interval, attempts, requests,
           sleeps, waited, last, observed, result, error, files, fi,
           all_transcriptions, fetches, results_response, env, submissions,
           sent, summary, exit_code, json_texts, ji, success_count, cycles >>

pollVars == << max_poll_attempts, poll_interval, attempts, requests, sleeps, waited,
              last, observed >>
resultVars == << files, fi, all_transcriptions, fetches, results_response >>
runVars == << env, submissions, sent, summary, exit_code >>
loopVars == << json_texts, ji, success_count, cycles >>

----------------------------------------------------------------------------
(* Bounds of the model *)

\* largest max_poll_attempts a run is configured with
MaxAttempts == 3
\* the ghost counters of the unbounded poller stop counting here
MaxCount == 3
\* longest files listing
MaxFiles == 2
\* most phrases in a result document
MaxPhrases == 2
\* most alternatives in one nBest list
MaxAlts == 2
\* longest configured poll_interval, in seconds
MaxInterval == 2

----------------------------------------------------------------------------
(* Values *)

None == "None"
NoError == [type |-> None, what |-> None, detail |-> None]
NoResponse == [kind |-> None]

\* the environment: whether the speech settings (key, endpoint or region,
\* container URI) and the Azure OpenAI settings (key, endpoint) are all set
Envs == [speech : BOOLEAN, openai : BOOLEAN]
FullEnv == [speech |-> TRUE, openai |-> TRUE]

\* what a status request can meet: a transport failure (requests.get
\* raises), an error HTTP status, or a JSON body
NetErr == [kind |-> "NetErr"]
HttpErr == [kind |-> "HttpErr"]

Urls == {"url1", "url2"}
Messages == {"msg1", "msg2"}
KnownRunning == {"NotStarted", "Running"}
\* "Paused" stands for any unrecognized status value, None for a body
\* without a status field
UnknownStatuses == {"Paused", None}
NonTerminal == KnownRunning \cup UnknownStatuses

\* A JSON status body.  url is resultsUrls.transcription, err is
\* error.message, perr is properties.error.message; None when absent.
Body(s, u, e, p) == [kind |-> "Json", status |-> s, url |-> u, err |-> e, perr |-> p]

StatusResponses ==
    {NetErr, HttpErr}
    \cup {Body(s, None, None, None) : s \in NonTerminal}
    \cup {Body("Succeeded", u, None, None) : u \in Urls \cup {None}}
    \cup {Body("Failed", None, e, p) : e \in Messages \cup {None}, p \in Messages \cup {None}}

IsTerminal(r) == r.kind = "Json" /\ r.status \in {"Succeeded", "Failed"}

\* what the loop logs for one response
Tag(r) == IF r.kind = "Json" THEN r.status ELSE r.kind

Min(a, b) == IF a < b THEN a ELSE b

----------------------------------------------------------------------------
(* app.py poll_transcription *)

\* mutant: the loop admits one iteration too many
LoopConditionInclusive(a, m) == a <= m

\* mutant: the loop gives up one iteration early
LoopConditionEarly(a, m) == a < m - 1

\* the loop condition, app.py line 154
LoopCondition(a, m) == a < m

\* mutant: the Failed exception is caught by the retry clause
AppBranchSwallow(r) ==
    IF r.kind \in {"NetErr", "HttpErr"} THEN "except"
    ELSE IF r.status = "Succeeded"
         THEN IF r.url # None THEN "return" ELSE "value_error"
    ELSE IF r.status = "Failed" THEN "except"
    ELSE IF r.status \in KnownRunning THEN "running"
    ELSE "unknown"

\* mutant: Succeeded without a results URL is polled again
AppBranchRetriesNoUrl(r) ==
    IF r.kind \in {"NetErr", "HttpErr"} THEN "except"
    ELSE IF r.status = "Succeeded"
         THEN IF r.url # None THEN "return" ELSE "unknown"
    ELSE IF r.status = "Failed" THEN "job_failed"
    ELSE IF r.status \in KnownRunning THEN "running"
    ELSE "unknown"

\* mutant: an unrecognized status is raised as an error
AppBranchStrict(r) ==
    IF r.kind \in {"NetErr", "HttpErr"} THEN "except"
    ELSE IF r.status = "Succeeded"
         THEN IF r.url # None THEN "return" ELSE "value_error"
    ELSE IF r.status = "Failed" THEN "job_failed"
    ELSE IF r.status \in KnownRunning THEN "running"
    ELSE "value_error"

\* Which way one iteration of the loop goes for response r (lines 155-184).
\* requests.get raising, and raise_for_status on an error HTTP status, are
\* both requests.RequestException and land in the except clause.
AppBranch(r) ==
    IF r.kind \in {"NetErr", "HttpErr"} THEN "except"
    ELSE IF r.status = "Succeeded"
         THEN IF r.url # None THEN "return" ELSE "value_error"
    ELSE IF r.status = "Failed" THEN "job_failed"
    ELSE IF r.status \in KnownRunning THEN "running"
    ELSE "unknown"

\* data.get("error", {}).get("message", "Unknown error"), line 171
AppErrorMessage(r) == IF r.err # None THEN r.err ELSE "Unknown error"

\* attempts += 1 after a non-terminal status (line 178)
AttemptsAfterStatus(a) == a + 1
\* mutant: the except clause forgets to count the attempt
AttemptsAfterErrorUncounted(a) == a

\* attempts += 1 in the except clause (line 183)
AttemptsAfterError(a) == a + 1
\* time.sleep(config.poll_interval): one more sleep (lines 179 and 184)
SleepsAfter(b, n) == IF b \in {"except", "running", "unknown"} THEN n + 1 ELSE n

\* the exception a terminal branch raises (lines 169 and 172)
AppRaise(b, r) ==
    IF b = "value_error"
    THEN [type |-> "ValueError", what |-> "No transcript URL in successful response",
          detail |-> None]
    ELSE [type |-> "Exception", what |-> "Transcription failed",
          detail |-> AppErrorMessage(r)]

\* one iteration of the while loop, with the remote answering r
AppPollStep(r) ==
    /\ program = "app"
    /\ pc = "poll"
    /\ LoopCondition(attempts, max_poll_attempts)
    /\ requests' = requests + 1
    /\ last' = r
    /\ observed' = Append(observed, Tag(r))
    /\ LET b == AppBranch(r) IN
         /\ sleeps' = SleepsAfter(b, sleeps)
         /\ waited' = waited + (sleeps' - sleeps) * poll_interval
         /\ CASE b = "return" ->
                   /\ pc' = "returned"
                   /\ result' = r.url
                   /\ UNCHANGED << attempts, error >>
              [] b \in {"value_error", "job_failed"} ->
                   /\ pc' = "raised"
                   /\ error' = AppRaise(b, r)
                   /\ UNCHANGED << attempts, result >>
              [] b = "except" ->
                   /\ attempts' = AttemptsAfterError(attempts)
                   /\ UNCHANGED << pc, result, error >>
              [] OTHER ->
                   /\ attempts' = AttemptsAfterStatus(attempts)
                   /\ UNCHANGED << pc, result, error >>
    /\ UNCHANGED << program, max_poll_attempts, poll_interval >>
    /\ UNCHANGED << resultVars, runVars, loopVars >>

\* the loop ends without a terminal status: raise TimeoutError (line 186)
AppPollTimeout ==
    /\ program = "app"
    /\ pc = "poll"
    /\ ~LoopCondition(attempts, max_poll_attempts)
    /\ pc' = "raised"
    /\ error' = [type |-> "TimeoutError", what |-> "Transcription job timed out",
                 detail |-> max_poll_attempts]
    /\ UNCHANGED << program, result >>
    /\ UNCHANGED pollVars
    /\ UNCHANGED << resultVars, runVars, loopVars >>

----------------------------------------------------------------------------
(* app_fixed.py poll_transcription *)

\* Which way one iteration of `while True` goes for response r (lines 65-84).
\* requests.get raising is caught nowhere; a status code other than 200
\* raises at line 68.
FixedBranch(r) ==
    IF r.kind = "NetErr" THEN "propagate"
    ELSE IF r.kind = "HttpErr" THEN "status_error"
    ELSE IF r.status = "Succeeded" THEN "get_results"
    ELSE IF r.status = "Failed" THEN "job_failed"
    ELSE IF r.status \in KnownRunning THEN "running"
    ELSE "unknown"

\* result.get('properties', {}).get('error', {}).get('message', 'Unknown error'),
\* line 77
FixedErrorMessage(r) == IF r.perr # None THEN r.perr ELSE "Unknown error"

\* the exception a raising branch leaves the poll with (lines 65, 68, 78)
FixedRaise(b, r) ==
    CASE b = "propagate" ->
           [type |-> "RequestException", what |-> "requests.get", detail |-> None]
      [] b = "status_error" ->
           [type |-> "Exception", what |-> "Failed to get transcription status",
            detail |-> None]
      [] OTHER ->
           [type |-> "Exception", what |-> "Transcription failed",
            detail |-> FixedErrorMessage(r)]

\* time.sleep(5), lines 81 and 84
FixedSleep == 5

\* one iteration of `while True`, with the remote answering r; the loop has
\* no counter of its own, the ghost counters stop counting at MaxCount
FixedPollStep(r) ==
    /\ program = "fixed"
    /\ pc = "poll"
    /\ requests' = Min(requests + 1, MaxCount)
    /\ last' = r
    /\ LET b == FixedBranch(r) IN
         CASE b = "get_results" ->
                /\ pc' = "get_results"
                /\ UNCHANGED << sleeps, waited, error >>
           [] b \in {"propagate", "status_error", "job_failed"} ->
                /\ pc' = "raised"
                /\ error' = FixedRaise(b, r)
                /\ UNCHANGED << sleeps, waited >>
           [] OTHER ->
                /\ sleeps' = Min(sleeps + 1, MaxCount)
                /\ waited' = Min(waited + FixedSleep, MaxCount * FixedSleep)
                /\ UNCHANGED << pc, error >>
    /\ UNCHANGED << program, max_poll_attempts, poll_interval, attempts, observed,
                    result >>
    /\ UNCHANGED << resultVars, runVars, loopVars >>

----------------------------------------------------------------------------
(* app_fixed.py get_results: values *)

SeqsUpTo(S, n) == UNION {[1..k -> S] : k \in 0..n}

Kinds == {"Transcription", "TranscriptionReport"}
Names == {"a.wav", "b.wav"}
Displays == {"a", "b"}

\* an entry of the files listing: name and links.contentUrl may be absent
FileEntries ==
    {[kind |-> k, name |-> n, url |-> u] :
        k \in Kinds, n \in Names \cup {None}, u \in {"u", None}}

\* the answer to the files-listing request: `values` may be absent
ListingResponses ==
    {NetErr, HttpErr}
    \cup {[kind |-> "Json", hasValues |-> FALSE, values |-> << >>]}
    \cup {[kind |-> "Json", hasValues |-> TRUE, values |-> v] :
             v \in SeqsUpTo(FileEntries, MaxFiles)}

\* one nBest alternative: display is None when the field is absent
Alts == {[display |-> d] : d \in Displays \cup {None}}

\* one phrase: hasNBest says whether the nBest field is there
Phrases ==
    {[hasNBest |-> FALSE, nBest |-> << >>]}
    \cup {[hasNBest |-> TRUE, nBest |-> a] : a \in SeqsUpTo(Alts, MaxAlts)}

\* a result document: hasPhrases says whether recognizedPhrases is there
Docs ==
    {[hasPhrases |-> FALSE, recognizedPhrases |-> << >>]}
    \cup {[hasPhrases |-> TRUE, recognizedPhrases |-> p] :
             p \in SeqsUpTo(Phrases, MaxPhrases)}

\* the answer to a content request
ContentResponses ==
    {NetErr, HttpErr} \cup {[kind |-> "Json", doc |-> d] : d \in Docs}

Alt(d) == [display |-> d]
Phrase(a) == [hasNBest |-> TRUE, nBest |-> a]
Doc(p) == [hasPhrases |-> TRUE, recognizedPhrases |-> p]

\* the content responses the whole container run is explored with
SampleDocs ==
    { [hasPhrases |-> FALSE, recognizedPhrases |-> << >>],
      Doc(<< >>),
      Doc(<< Phrase(<< Alt("a"), Alt("b") >>), Phrase(<< Alt("b") >>) >>),
      Doc(<< Phrase(<< Alt(None) >>) >>) }

SampleContentResponses ==
    {NetErr, HttpErr} \cup {[kind |-> "Json", doc |-> d] : d \in SampleDocs}

----------------------------------------------------------------------------
(* app_fixed.py get_results: text extraction, lines 107-113 *)

\* `'nBest' in phrase and phrase['nBest']`, line 111
UsesPhrase(p) == p.hasNBest /\ p.nBest # << >>

\* mutant: the last alternative is taken instead of the first
ChosenLast(p) == p.nBest[Len(p.nBest)]

\* phrase['nBest'][0], line 112
Chosen(p) == p.nBest[1]

\* the loop of lines 110-112 meets a chosen alternative without `display`
RECURSIVE KeyError(_)
KeyError(ps) ==
    IF ps = << >> THEN FALSE
    ELSE (UsesPhrase(Head(ps)) /\ Chosen(Head(ps)).display = None)
         \/ KeyError(Tail(ps))

\* text_parts after the loop of lines 109-112
RECURSIVE TextParts(_)
TextParts(ps) ==
    IF ps = << >> THEN << >>
    ELSE (IF UsesPhrase(Head(ps)) THEN << Chosen(Head(ps)).display >> ELSE << >>)
         \o TextParts(Tail(ps))

\* ' '.join(text_parts), line 113
RECURSIVE Join(_)
Join(parts) ==
    IF parts = << >> THEN ""
    ELSE IF Len(parts) = 1 THEN parts[1]
    ELSE parts[1] \o " " \o Join(Tail(parts))

\* file_data.get('name', 'unknown'), line 101
FileName(f) == IF f.name # None THEN f.name ELSE "unknown"

\* all_transcriptions[k] = v on a dict kept in insertion order: a key that
\* is there keeps its place and takes the new value
DictSet(d, k, v) ==
    IF \E i \in 1..Len(d) : d[i].name = k
    THEN [i \in 1..Len(d) |-> IF d[i].name = k THEN [name |-> k, text |-> v] ELSE d[i]]
    ELSE Append(d, [name |-> k, text |-> v])

----------------------------------------------------------------------------
(* app_fixed.py get_results: the requests *)

\* the files-listing request and what follows it (lines 91-97)
ListBranch(r) ==
    IF r.kind = "NetErr" THEN "propagate"
    ELSE IF r.kind = "HttpErr" THEN "status_error"
    ELSE "files"

\* response.json().get('values', []), line 96
ListedFiles(r) == IF r.hasValues THEN r.values ELSE << >>

\* mutant: results['recognizedPhrases'] is read without the membership test
FileBranchUnguarded(f, r) ==
    IF f.kind # "Transcription" THEN "skip_kind"
    ELSE IF f.url = None THEN "skip_url"
    ELSE IF r.kind = "NetErr" THEN "propagate"
    ELSE IF r.kind = "HttpErr" THEN "skip_status"
    ELSE IF ~r.doc.hasPhrases THEN "key_error"
    ELSE IF KeyError(r.doc.recognizedPhrases) THEN "key_error"
    ELSE "store"

\* mutant: a non-200 answer to the content request is raised
FileBranchFatal(f, r) ==
    IF f.kind # "Transcription" THEN "skip_kind"
    ELSE IF f.url = None THEN "skip_url"
    ELSE IF r.kind \in {"NetErr", "HttpErr"} THEN "propagate"
    ELSE IF ~r.doc.hasPhrases THEN "skip_field"
    ELSE IF KeyError(r.doc.recognizedPhrases) THEN "key_error"
    ELSE "store"

\* Which way one iteration of `for file_data in files` goes (lines 100-113);
\* r is the answer to the content request when one is made.
FileBranch(f, r) ==
    IF f.kind # "Transcription" THEN "skip_kind"
    ELSE IF f.url = None THEN "skip_url"
    ELSE IF r.kind = "NetErr" THEN "propagate"
    ELSE IF r.kind = "HttpErr" THEN "skip_status"
    ELSE IF ~r.doc.hasPhrases THEN "skip_field"
    ELSE IF KeyError(r.doc.recognizedPhrases) THEN "key_error"
    ELSE "store"

\* mutant: the content is requested whatever the kind of the entry
FetchesAnyKind(f) == f.url # None

\* lines 105: the iteration issues a content request
Fetches(f) == f.kind = "Transcription" /\ f.url # None

\* the text stored for a document, lines 109-113
ExtractText(doc) == Join(TextParts(doc.recognizedPhrases))

GetResultsList(r) ==
    /\ program = "fixed"
    /\ pc = "get_results"
    /\ LET b == ListBranch(r) IN
         CASE b = "propagate" ->
                /\ pc' = "raised"
                /\ error' = [type |-> "RequestException", what |-> "requests.get",
                             detail |-> None]
                /\ UNCHANGED << files, fi, all_transcriptions >>
           [] b = "status_error" ->
                /\ pc' = "raised"
                /\ error' = [type |-> "Exception", what |-> "Failed to get results",
                             detail |-> None]
                /\ UNCHANGED << files, fi, all_transcriptions >>
           [] OTHER ->
                /\ pc' = "files"
                /\ files' = ListedFiles(r)
                /\ fi' = 1
                /\ all_transcriptions' = << >>
                /\ UNCHANGED error
    /\ UNCHANGED << program, result, fetches, results_response >>
    /\ UNCHANGED << pollVars, runVars, loopVars >>

\* one iteration of the loop over `files`; the content request, when the
\* entry leads to one, is answered by some response of R
GetResultsFile(R) ==
    /\ program \in {"fixed", "extract"}
    /\ pc = "files"
    /\ fi <= Len(files)
    /\ \E r \in (IF Fetches(files[fi]) THEN R ELSE {NoResponse}) :
         LET f == files[fi]
             b == FileBranch(f, r)
         IN  /\ IF Fetches(f)
                THEN /\ fetches' = Append(fetches, fi)
                     /\ results_response' = r
                ELSE UNCHANGED << fetches, results_response >>
             /\ CASE b = "propagate" ->
                       /\ pc' = "raised"
                       /\ error' = [type |-> "RequestException", what |-> "requests.get",
                                    detail |-> None]
                       /\ UNCHANGED << fi, all_transcriptions >>
                  [] b = "key_error" ->
                       /\ pc' = "raised"
                       /\ error' = [type |-> "KeyError", what |-> "display",
                                    detail |-> None]
                       /\ UNCHANGED << fi, all_transcriptions >>
                  [] b = "store" ->
                       /\ all_transcriptions' =
                             DictSet(all_transcriptions, FileName(f), ExtractText(r.doc))
                       /\ fi' = fi + 1
                       /\ UNCHANGED << pc, error >>
                  [] OTHER ->
                       /\ fi' = fi + 1
                       /\ UNCHANGED << pc, error, all_transcriptions >>
    /\ UNCHANGED << program, result, files >>
    /\ UNCHANGED << pollVars, runVars, loopVars >>

\* `return all_transcriptions`, line 115: the mapping is what the poll returns
GetResultsReturn ==
    /\ program \in {"fixed", "extract"}
    /\ pc = "files"
    /\ fi > Len(files)
    /\ pc' = "returned"
    /\ UNCHANGED << program, result, error >>
    /\ UNCHANGED << pollVars, resultVars, runVars, loopVars >>

----------------------------------------------------------------------------
(* Specifications *)

\* the status responses of the container-mode service carry no resultsUrls
FixedStatusResponses == {r \in StatusResponses : r.kind = "Json" => r.url = None}

InitCommon ==
    /\ attempts = 0
    /\ requests = 0
    /\ sleeps = 0
    /\ waited = 0
    /\ last = NoResponse
    /\ observed = << >>
    /\ result = None
    /\ error = NoError
    /\ fetches = << >>
    /\ results_response = NoResponse
    /\ all_transcriptions = << >>
    /\ submissions = << >>
    /\ sent = << >>
    /\ summary = None
    /\ exit_code = None
    /\ json_texts = << >>
    /\ ji = 1
    /\ success_count = 0
    /\ cycles = 0

\* a poll call starts: app.py with any configured max_poll_attempts and
\* poll_interval, or app_fixed.py
Init ==
    /\ InitCommon
    /\ program \in {"app", "fixed"}
    /\ pc = "poll"
    /\ max_poll_attempts \in (IF program = "app" THEN 0..MaxAttempts ELSE {0})
    /\ poll_interval \in (IF program = "app" THEN 1..MaxInterval ELSE {0})
    /\ files = << >>
    /\ fi = 1
    /\ env = FullEnv

Next ==
    \/ \E r \in StatusResponses : AppPollStep(r)
    \/ AppPollTimeout
    \/ \E r \in FixedStatusResponses : FixedPollStep(r)
    \/ \E r \in ListingResponses : GetResultsList(r)
    \/ GetResultsFile(SampleContentResponses)
    \/ GetResultsReturn

Spec == Init /\ [][Next]_vars

\* the poller is a sequential program: it takes its next step whenever it
\* has one
FairSpec == Spec /\ WF_vars(Next)

\* get_results applied to one listed file and any content response
InitExtract ==
    /\ InitCommon
    /\ program = "extract"
    /\ pc = "files"
    /\ max_poll_attempts = 0
    /\ poll_interval = 0
    /\ files \in {<< f >> : f \in FileEntries}
    /\ fi = 1
    /\ env = FullEnv

NextExtract ==
    \/ GetResultsFile(ContentResponses)
    \/ GetResultsReturn

SpecExtract == InitExtract /\ [][NextExtract]_vars

----------------------------------------------------------------------------
(* Claims about the pollers *)

AllOf(seq, S) == \A i \in 1..Len(seq) : seq[i] \in S
Answered == last # NoResponse
TerminalSeen == Answered /\ IsTerminal(last)
IsTimeout == pc = "raised" /\ error.type = "TimeoutError"
CanRequest == ENABLED (\E r \in StatusResponses : AppPollStep(r))

\* C1: in both pollers, once a status response reported Succeeded or Failed,
\* no step of the run issues another status request, and the run is never
\* back in the polling loop.
C1_NoRequestAfterTerminal ==
    [][TerminalSeen => (requests' = requests /\ last' = last /\ pc' # "poll")]_vars

\* C1 witness: app.py stopped on a terminal response with attempts to spare
C1_Witness ==
    /\ program = "app"
    /\ TerminalSeen
    /\ pc \in {"returned", "raised"}
    /\ attempts + 1 < max_poll_attempts

\* C2: with max_poll_attempts = N and every status request answered Running,
\* app.py issues at most N requests, as many sleeps of poll_interval as
\* requests, keeps requesting until N are made, can only end by the timeout
\* error, and ends with exactly N requests, N sleeps and N x poll_interval
\* seconds waited (no request at all when N = 0).
C2_AlwaysRunningTimesOut ==
    (program = "app" /\ AllOf(observed, {"Running"})) =>
        /\ requests = Len(observed)
        /\ requests <= max_poll_attempts
        /\ sleeps = requests
        /\ waited = requests * poll_interval
        /\ attempts = requests
        /\ pc \in {"poll", "raised"}
        /\ (pc = "poll" /\ requests < max_poll_attempts) =>
               (CanRequest /\ ~ENABLED AppPollTimeout)
        /\ (pc = "poll" /\ requests = max_poll_attempts) =>
               (~CanRequest /\ ENABLED AppPollTimeout)
        /\ pc = "raised" =>
               /\ error.type = "TimeoutError"
               /\ error.detail = max_poll_attempts
               /\ requests = max_poll_attempts
               /\ sleeps = max_poll_attempts
               /\ waited = max_poll_attempts * poll_interval

\* C2 witness: N >= 2 requests, all answered Running, then the timeout
C2_Witness ==
    /\ program = "app"
    /\ IsTimeout
    /\ max_poll_attempts >= 2
    /\ Len(observed) = max_poll_attempts
    /\ AllOf(observed, {"Running"})


IsErrorResponse(r) == r.kind \in {"NetErr", "HttpErr"}

\* C3: in app.py a status request that meets a network or HTTP error raises
\* nothing at that point: the step counts one attempt, sleeps once for
\* poll_interval and stays in the loop; afterwards another request follows
\* while attempts remain, and a run whose latest response was such an error
\* can only fail by the timeout error, with the attempt budget used up.
C3_ErrorIsRetried ==
    /\ [][(program = "app" /\ requests' = requests + 1 /\ IsErrorResponse(last')) =>
             /\ attempts' = attempts + 1
             /\ sleeps' = sleeps + 1
             /\ waited' = waited + poll_interval
             /\ pc' = "poll"
             /\ error' = NoError]_vars
    /\ [](program = "app" /\ Answered /\ IsErrorResponse(last) =>
             /\ (pc = "poll" /\ attempts < max_poll_attempts) => CanRequest
             /\ pc # "poll" =>
                    (IsTimeout /\ attempts = max_poll_attempts))

\* C3 witness: an error response was followed by a further request, which
\* succeeded
C3_Witness ==
    /\ program = "app"
    /\ pc = "returned"
    /\ \E i \in 1..Len(observed) : observed[i] \in {"NetErr", "HttpErr"}

\* C4: in app.py, while no terminal status has been seen (whatever mix of
\* NotStarted, Running, unrecognized values and network errors came), the
\* attempt counter equals the number of status requests made, the requests
\* never exceed max_poll_attempts, and the only failure is the timeout with
\* the budget used up: an unrecognized status leaves the run polling.
C4_OneAttemptPerIteration ==
    program = "app" =>
        /\ requests <= max_poll_attempts
        /\ requests = Len(observed)
        /\ ~TerminalSeen =>
               /\ attempts = requests
               /\ sleeps = requests
               /\ pc \in {"poll", "raised"}
               /\ pc = "raised" => (IsTimeout /\ attempts = max_poll_attempts)

\* C4 witness: an unrecognized status, a network error and a known status
\* were all seen and the run is still polling
C4_Witness ==
    /\ program = "app"
    /\ pc = "poll"
    /\ attempts = 3
    /\ \E i \in 1..Len(observed) : observed[i] \in UnknownStatuses
    /\ \E i \in 1..Len(observed) : observed[i] \in {"NetErr", "HttpErr"}
    /\ \E i \in 1..Len(observed) : observed[i] \in KnownRunning

\* C5: in app.py, when the latest response is Succeeded with a results URL
\* (so every earlier one was non-terminal or an error), the poll has returned
\* exactly that URL, after k requests and k-1 sleeps, k <= max_poll_attempts;
\* and the k-th request is made for every k up to max_poll_attempts, so that a
\* success on the last permitted attempt is returned.
C5_SuccessReturnsUrl ==
    program = "app" =>
        /\ (pc = "poll" /\ requests < max_poll_attempts) => CanRequest
        /\ (Answered /\ last.kind = "Json" /\ last.status = "Succeeded"
               /\ last.url # None) =>
               /\ pc = "returned"
               /\ result = last.url
               /\ error = NoError
               /\ requests = attempts + 1
               /\ sleeps = requests - 1
               /\ waited = (requests - 1) * poll_interval
               /\ requests <= max_poll_attempts

\* C5 witness: success on the last permitted attempt, after a non-terminal
\* status and an error
C5_Witness ==
    /\ program = "app"
    /\ pc = "returned"
    /\ result = "url2"
    /\ requests = max_poll_attempts
    /\ requests = 3
    /\ observed[1] \in NonTerminal
    /\ observed[2] \in {"NetErr", "HttpErr"}


\* the error messages the remote put into a Failed body, in either place
SuppliedMessages == {last.err, last.perr} \ {None}

\* C6: in both pollers a Failed status response makes the poll fail at once
\* with the job-failed error, carrying a message the remote supplied (the
\* default text only when it supplied none), without counting an attempt and
\* never as a timeout.
C6_FailedCarriesMessage ==
    (Answered /\ last.kind = "Json" /\ last.status = "Failed") =>
        /\ pc = "raised"
        /\ error.type = "Exception"
        /\ error.what = "Transcription failed"
        /\ SuppliedMessages = {} => error.detail = "Unknown error"
        /\ SuppliedMessages # {} => error.detail \in SuppliedMessages
        /\ program = "app" => attempts = requests - 1

\* C7: the container-mode poller ends with the timeout failure unless the
\* remote reports a terminal status or the request fails: it does not poll
\* forever.
C7_FixedPollIsBounded ==
    program = "fixed" =>
        <>(TerminalSeen \/ (Answered /\ IsErrorResponse(last)) \/ IsTimeout)

\* C8: in the container-mode poller an HTTP error on a status request does not
\* fail the poll: the run is still polling after it.
C8_FixedHttpErrorNotFatal ==
    (program = "fixed" /\ Answered /\ last.kind = "HttpErr") =>
        (pc = "poll" /\ error = NoError)


----------------------------------------------------------------------------
(* Claims about the extraction of get_results *)

\* the phrases that have a non-empty nBest, in document order
WithAlternatives(ps) == SelectSeq(ps, LAMBDA p : p.hasNBest /\ Len(p.nBest) > 0)

\* the display field of the first alternative of each such phrase
TopDisplays(ps) ==
    [i \in 1..Len(WithAlternatives(ps)) |-> WithAlternatives(ps)[i].nBest[1].display]

\* ts[1] ts[2] ... ts[n] with one space between neighbours, built from the end
RECURSIVE Spaced(_)
Spaced(ts) ==
    IF Len(ts) = 0 THEN ""
    ELSE IF Len(ts) = 1 THEN ts[1]
    ELSE Spaced(SubSeq(ts, 1, Len(ts) - 1)) \o " " \o ts[Len(ts)]

\* a content request was made for the listed file and answered with a JSON
\* document
Fetched == fetches # << >> /\ results_response.kind = "Json"
FetchedDoc == results_response.doc
Entry(n, t) == [name |-> n, text |-> t]

\* C9: for a fetched document that has recognizedPhrases (every first
\* alternative carrying its display text), the mapping holds for that file
\* exactly the first alternatives' display texts of the phrases with a
\* non-empty nBest, in document order, joined by single spaces; with no
\* phrases, or none that has alternatives, the text is the empty string.
C9_TextIsJoinedTopDisplays ==
    (program = "extract" /\ Fetched /\ FetchedDoc.hasPhrases
        /\ AllOf(TopDisplays(FetchedDoc.recognizedPhrases), Displays)) =>
        /\ fi = 2
        /\ pc # "raised"
        /\ all_transcriptions =
              << Entry(FileName(files[1]),
                       Spaced(TopDisplays(FetchedDoc.recognizedPhrases))) >>
        /\ WithAlternatives(FetchedDoc.recognizedPhrases) = << >> =>
              all_transcriptions[1].text = ""

\* C9 witness: two phrases with alternatives, the first alternatives differ
\* from the later ones, and the text "a b" came out
C9_Witness ==
    /\ program = "extract"
    /\ Fetched
    /\ FetchedDoc.hasPhrases
    /\ FetchedDoc.recognizedPhrases =
          << Phrase(<< Alt("a"), Alt("b") >>), Phrase(<< Alt("b"), Alt("a") >>) >>
    /\ pc = "returned"
    /\ all_transcriptions = << Entry("a.wav", "a b") >>

----------------------------------------------------------------------------
(* Claims about the files listing of get_results *)

InSeq(x, seq) == \E i \in 1..Len(seq) : seq[i] = x

\* C11: get_results requests content only for listed entries whose kind is
\* Transcription, and every key of the mapping is the name (or, for an entry
\* that reports none, the default name) of a Transcription entry that was
\* fetched; entries of another kind are never fetched.
C11_OnlyTranscriptionFetched ==
    program = "fixed" =>
        /\ \A k \in 1..Len(fetches) :
              /\ fetches[k] \in 1..Len(files)
              /\ files[fetches[k]].kind = "Transcription"
        /\ \A i \in 1..Len(files) :
              files[i].kind # "Transcription" => ~InSeq(i, fetches)
        /\ \A j \in 1..Len(all_transcriptions) :
              \E i \in 1..Len(files) :
                 /\ files[i].kind = "Transcription"
                 /\ InSeq(i, fetches)
                 /\ FileName(files[i]) = all_transcriptions[j].name

\* C11 witness: a listing with a Transcription entry and an entry of another
\* kind, both with a contentUrl; only the first was fetched and is a key
C11_Witness ==
    /\ program = "fixed"
    /\ pc = "returned"
    /\ Len(files) = 2
    /\ files[1] = [kind |-> "Transcription", name |-> "a.wav", url |-> "u"]
    /\ files[2] = [kind |-> "TranscriptionReport", name |-> "b.wav", url |-> "u"]
    /\ fetches = << 1 >>
    /\ Len(all_transcriptions) = 1
    /\ all_transcriptions[1].name = "a.wav"

\* the iteration on files[fi] is one whose content cannot be fetched: the
\* entry has no contentUrl, or the content request is answered non-200
FetchFails ==
    /\ program = "fixed"
    /\ pc = "files"
    /\ fi <= Len(files)
    /\ files[fi].kind = "Transcription"
    /\ \/ files[fi].url = None
       \/ (fetches' = Append(fetches, fi) /\ results_response' = HttpErr)

\* C12: in get_results a Transcription entry whose content cannot be fetched
\* (no contentUrl, or a non-200 answer) adds nothing to the mapping and raises
\* nothing: the entries stored before stay, the loop goes on to the next
\* entry, and when get_results returns every Transcription entry with a
\* contentUrl has been fetched.
C12_FailedFetchIsSkipped ==
    /\ [][FetchFails =>
             /\ pc' = "files"
             /\ fi' = fi + 1
             /\ error' = NoError
             /\ all_transcriptions' = all_transcriptions]_vars
    /\ [](program = "fixed" /\ pc = "returned" =>
             \A i \in 1..Len(files) : Fetches(files[i]) => InSeq(i, fetches))

\* C12 witness: the first file was stored, the second answered non-200, and
\* get_results returned the mapping with the first
C12_Witness ==
    /\ program = "fixed"
    /\ pc = "returned"
    /\ Len(files) = 2
    /\ fetches = << 1, 2 >>
    /\ results_response = HttpErr
    /\ all_transcriptions = << [name |-> "a.wav", text |-> "a b"] >>


----------------------------------------------------------------------------
(* Job submission: app.py start_transcription, app_fixed.py transcribe_container *)

\* HTTP 201 Created, the status app_fixed.py line 46 asks for
Created == 201

\* what the submission request can meet: a transport failure, or an HTTP
\* answer with a status code and, possibly, a Location header
SubmitResponses ==
    {NetErr}
    \cup {[kind |-> "Http", code |-> c, location |-> l] :
             c \in {Created, 200, 400}, l \in {"job1", None}}

\* app.py start_transcription after the POST (lines 132-147):
\* raise_for_status raises for the 4xx and 5xx codes only
AppSubmitBranch(r) ==
    IF r.kind = "NetErr" THEN "propagate"
    ELSE IF r.code >= 400 THEN "http_error"
    ELSE IF r.location = None THEN "value_error"
    ELSE "return"

\* the exception start_transcription re-raises (lines 142-147); the HTTPError
\* of raise_for_status holds the response, the ValueError only its text
AppSubmitRaise(b, r) ==
    CASE b = "propagate" ->
           [type |-> "RequestException", what |-> "requests.post", detail |-> None]
      [] b = "http_error" ->
           [type |-> "HTTPError", what |-> "raise_for_status", detail |-> r.code]
      [] OTHER ->
           [type |-> "ValueError", what |-> "No job URL returned from Azure Speech",
            detail |-> None]

\* start_transcription: one POST, then the job URL returned or the exception
\* re-raised
AppStartTranscription(r) ==
    /\ program = "app"
    /\ pc = "start"
    /\ submissions' = Append(submissions, r)
    /\ LET b == AppSubmitBranch(r) IN
         IF b = "return"
         THEN /\ pc' = "started"
              /\ result' = r.location
              /\ UNCHANGED error
         ELSE /\ pc' = "raised"
              /\ error' = AppSubmitRaise(b, r)
              /\ UNCHANGED result
    /\ UNCHANGED << program, env, sent, summary, exit_code >>
    /\ UNCHANGED << pollVars, resultVars, loopVars >>

\* mutant: the status of the answer is not tested
FixedSubmitBranchAnyStatus(r) ==
    IF r.kind = "NetErr" THEN "propagate"
    ELSE IF r.location = None THEN "attribute_error"
    ELSE "poll"

\* app_fixed.py transcribe_container after the POST (lines 44-55)
FixedSubmitBranch(r) ==
    IF r.kind = "NetErr" THEN "propagate"
    ELSE IF r.code # Created THEN "status_error"
    ELSE IF r.location = None THEN "attribute_error"
    ELSE "poll"

\* the exception transcribe_container leaves with: line 19 (settings
\* missing), line 44, line 47 (with status code and body), or line 51, where
\* None.split raises
FixedSubmitRaise(b, r) ==
    CASE b = "config" ->
           [type |-> "ValueError", what |-> "Missing required environment variables",
            detail |-> None]
      [] b = "propagate" ->
           [type |-> "RequestException", what |-> "requests.post", detail |-> None]
      [] b = "status_error" ->
           [type |-> "Exception", what |-> "Failed to create transcription",
            detail |-> r.code]
      [] OTHER ->
           [type |-> "AttributeError", what |-> "'NoneType' object has no attribute 'split'",
            detail |-> None]

\* `if not all([speech_key, speech_endpoint, container_uri])`, line 18
SpeechConfigured(e) == e.speech

\* transcribe_container up to its call of poll_transcription: the settings
\* check, then the submission answered by some response of R
FixedTranscribeContainer(R) ==
    /\ program = "fixed"
    /\ pc = "start"
    /\ \E r \in (IF SpeechConfigured(env) THEN R ELSE {NoResponse}) :
         LET b == IF SpeechConfigured(env) THEN FixedSubmitBranch(r) ELSE "config"
         IN  /\ submissions' = IF b = "config" THEN submissions
                               ELSE Append(submissions, r)
             /\ IF b = "poll"
                THEN /\ pc' = "poll"
                     /\ UNCHANGED error
                ELSE /\ pc' = "raised"
                     /\ error' = FixedSubmitRaise(b, r)
    /\ UNCHANGED << program, result, env, sent, summary, exit_code >>
    /\ UNCHANGED << pollVars, resultVars, loopVars >>


----------------------------------------------------------------------------
(* Summarization: app_fixed.py summarize_text and main *)

\* what the summarization request can meet: a transport failure, HTTP 200
\* with the generated text (content None: a body without it), or an error
\* status
SummaryResponses ==
    { NetErr,
      [kind |-> "Http", code |-> 200, content |-> "summary"],
      [kind |-> "Http", code |-> 200, content |-> None],
      [kind |-> "Http", code |-> 429, content |-> None] }

\* combined_text after the loop of lines 161-166 over the mapping, in the
\* order of the dict
RECURSIVE CombinedText(_)
CombinedText(d) ==
    IF d = << >> THEN ""
    ELSE CombinedText(SubSeq(d, 1, Len(d) - 1))
         \o "\n" \o d[Len(d)].name \o ": " \o d[Len(d)].text

\* `if not openai_key or not openai_endpoint`, line 123
OpenAIConfigured(e) == e.openai

\* mutant: every HTTP answer is read as a completion
FixedSummaryBranchLenient(r) ==
    IF r.kind = "NetErr" THEN "propagate"
    ELSE IF r.content # None THEN "return" ELSE "key_error"

\* summarize_text after the POST (lines 146-152)
FixedSummaryBranch(r) ==
    IF r.kind = "NetErr" THEN "propagate"
    ELSE IF r.code = 200
         THEN IF r.content # None THEN "return" ELSE "key_error"
    ELSE "status_error"

\* the exception summarize_text leaves with (lines 124, 146, 150, 152)
FixedSummaryRaise(b, r) ==
    CASE b = "config" ->
           [type |-> "ValueError", what |-> "Missing Azure OpenAI configuration",
            detail |-> None]
      [] b = "propagate" ->
           [type |-> "RequestException", what |-> "requests.post", detail |-> None]
      [] b = "key_error" ->
           [type |-> "KeyError", what |-> "choices", detail |-> None]
      [] OTHER ->
           [type |-> "Exception", what |-> "Summarization failed", detail |-> r.code]

\* main after transcribe_container returned (lines 160-171): the texts are
\* combined and summarize_text is called, its request answered by some
\* response of R; on its return main ends and the process exits with status 0
FixedMainSummarize(R) ==
    /\ program = "fixed"
    /\ pc = "returned"
    /\ \E r \in (IF OpenAIConfigured(env) THEN R ELSE {NoResponse}) :
         LET text == CombinedText(all_transcriptions)
             b == IF OpenAIConfigured(env) THEN FixedSummaryBranch(r) ELSE "config"
         IN  /\ sent' = IF b = "config" THEN sent
                        ELSE Append(sent, [text |-> text, answer |-> r])
             /\ IF b = "return"
                THEN /\ summary' = r.content
                     /\ pc' = "exited"
                     /\ exit_code' = 0
                     /\ UNCHANGED error
                ELSE /\ pc' = "raised"
                     /\ error' = FixedSummaryRaise(b, r)
                     /\ UNCHANGED << summary, exit_code >>
    /\ UNCHANGED << program, result, env, submissions >>
    /\ UNCHANGED << pollVars, resultVars, loopVars >>

\* `except Exception as e: print(...)`, lines 173-174: whatever stage raised,
\* main returns and the process exits with status 0
FixedMainExcept ==
    /\ program = "fixed"
    /\ pc = "raised"
    /\ pc' = "exited"
    /\ exit_code' = 0
    /\ UNCHANGED << program, result, error, env, submissions, sent, summary >>
    /\ UNCHANGED << pollVars, resultVars, loopVars >>

----------------------------------------------------------------------------
(* app.py: load_config, main, main_loop, fetch_json_texts, process_json_text,
   summarize *)

\* most items in one answer of the third-party API
MaxItems == 2

\* the texts an item or a plain-text body can hold
ItemTexts == {"", " ", "t"}

\* an element of the JSON list: valid when it is a dict with "id" and "text"
Items ==
    {[valid |-> FALSE, text |-> ""]}
    \cup {[valid |-> TRUE, text |-> t] : t \in ItemTexts}

\* what the request to the third-party API can meet
FetchResponses ==
    {NetErr, HttpErr, [kind |-> "JsonOther"]}
    \cup {[kind |-> "JsonList", items |-> v] : v \in SeqsUpTo(Items, MaxItems)}
    \cup {[kind |-> "Text", text |-> t] : t \in ItemTexts}

\* str.strip() on the texts of ItemTexts
Strip(t) == IF t = " " THEN "" ELSE t

\* the list fetch_json_texts returns (lines 72-115)
FetchJsonTexts(r) ==
    CASE r.kind \in {"NetErr", "HttpErr", "JsonOther"} -> << >>
      [] r.kind = "JsonList" -> SelectSeq(r.items, LAMBDA i : i.valid)
      [] OTHER -> IF Strip(r.text) # ""
                  THEN << [valid |-> TRUE, text |-> Strip(r.text)] >>
                  ELSE << >>

\* load_config finds its four required variables (lines 44-53)
AppConfigured(e) == e.speech /\ e.openai

\* main: load_config, then main_loop enters its `if True:` body; a missing
\* variable is a ValueError and sys.exit(1) (lines 287-293)
AppMain ==
    /\ program = "loop"
    /\ pc = "start"
    /\ IF AppConfigured(env)
       THEN /\ pc' = "fetch"
            /\ cycles' = cycles + 1
            /\ UNCHANGED << error, exit_code >>
       ELSE /\ pc' = "exited"
            /\ error' = [type |-> "ValueError",
                         what |-> "Missing required environment variables",
                         detail |-> None]
            /\ exit_code' = 1
            /\ UNCHANGED cycles
    /\ UNCHANGED << program, result, env, submissions, sent, summary >>
    /\ UNCHANGED << json_texts, ji, success_count >>
    /\ UNCHANGED << pollVars, resultVars >>

\* json_texts = fetch_json_texts(config), success_count = 0 (lines 262-266)
MainLoopFetch(r) ==
    /\ program = "loop"
    /\ pc = "fetch"
    /\ json_texts' = FetchJsonTexts(r)
    /\ ji' = 1
    /\ success_count' = 0
    /\ pc' = "items"
    /\ UNCHANGED << program, result, error, cycles >>
    /\ UNCHANGED << pollVars, resultVars, runVars >>

\* `if not text`, line 236, negated
HasText(text) == text # ""

\* mutant: any HTTP answer is returned as a summary
AppSummaryBranchLenient(r) ==
    IF r.kind = "NetErr" THEN "raise" ELSE "return"

\* summarize (lines 199-227): the completion is returned, anything else is
\* an exception re-raised; a completion without choices is an IndexError
AppSummaryBranch(r) ==
    IF r.kind = "NetErr" THEN "raise"
    ELSE IF r.code = 200 /\ r.content # None THEN "return"
    ELSE "raise"

\* what process_json_text returns (lines 231-251): False for an item without
\* text or when summarize raised, True otherwise
ProcessJsonText(text, r) == HasText(text) /\ AppSummaryBranch(r) = "return"

\* one iteration of `for json_item in json_texts` (lines 268-270); the
\* request of summarize, when the item leads to one, is answered by some
\* response of R
MainLoopItem(R) ==
    /\ program = "loop"
    /\ pc = "items"
    /\ ji <= Len(json_texts)
    /\ \E r \in (IF HasText(json_texts[ji].text) THEN R ELSE {NoResponse}) :
         LET text == json_texts[ji].text IN
           /\ sent' = IF HasText(text)
                      THEN Append(sent, [text |-> text, answer |-> r])
                      ELSE sent
           /\ summary' = IF ProcessJsonText(text, r) THEN r.content ELSE summary
           /\ success_count' = IF ProcessJsonText(text, r)
                               THEN success_count + 1 ELSE success_count
    /\ ji' = ji + 1
    /\ UNCHANGED << program, pc, result, error, env, submissions, exit_code >>
    /\ UNCHANGED << json_texts, cycles >>
    /\ UNCHANGED << pollVars, resultVars >>

\* the loop over the items is over: time.sleep(config.run_interval), line 277
MainLoopSleep ==
    /\ program = "loop"
    /\ pc = "items"
    /\ ji > Len(json_texts)
    /\ pc' = "sleep"
    /\ UNCHANGED << program, result, error >>
    /\ UNCHANGED << pollVars, resultVars, runVars, loopVars >>

\* the sleep is over: the body of `if True:` is left, main_loop and main
\* return and the process exits with status 0
MainLoopReturn ==
    /\ program = "loop"
    /\ pc = "sleep"
    /\ pc' = "exited"
    /\ exit_code' = 0
    /\ UNCHANGED << program, result, error, env, submissions, sent, summary >>
    /\ UNCHANGED << pollVars, resultVars, loopVars >>

\* a KeyboardInterrupt while main_loop runs: no `except Exception` on the way
\* catches it, the clause of line 279 logs it and main_loop returns
MainLoopInterrupt ==
    /\ program = "loop"
    /\ pc \in {"fetch", "items", "sleep"}
    /\ error' = [type |-> "KeyboardInterrupt", what |-> "Service interrupted by user",
                 detail |-> None]
    /\ pc' = "exited"
    /\ exit_code' = 0
    /\ UNCHANGED << program, result, env, submissions, sent, summary >>
    /\ UNCHANGED << pollVars, resultVars, loopVars >>

----------------------------------------------------------------------------
(* The whole runs *)

\* the entries of the listings the whole container run is explored with
RunEntries ==
    {[kind |-> "Transcription", name |-> n, url |-> "u"] : n \in Names \cup {None}}
    \cup { [kind |-> "Transcription", name |-> "a.wav", url |-> None],
           [kind |-> "TranscriptionReport", name |-> "b.wav", url |-> "u"] }

RunListingResponses ==
    {NetErr, HttpErr}
    \cup {[kind |-> "Json", hasValues |-> TRUE, values |-> v] :
             v \in SeqsUpTo(RunEntries, MaxFiles)}

\* the status responses the whole container run is explored with
RunStatusResponses ==
    { HttpErr,
      Body("Running", None, None, None),
      Body("Succeeded", None, None, None),
      Body("Failed", None, None, "msg1") }

\* a process starts: app_fixed.py main ("fixed"), app.py main ("loop"), or a
\* call of app.py start_transcription ("app"), in any environment
InitRun ==
    /\ InitCommon
    /\ program \in {"app", "fixed", "loop"}
    /\ pc = "start"
    /\ max_poll_attempts = 0
    /\ poll_interval = 0
    /\ files = << >>
    /\ fi = 1
    /\ env \in (IF program = "app" THEN {FullEnv} ELSE Envs)

NextRun ==
    \/ \E r \in SubmitResponses : AppStartTranscription(r)
    \/ FixedTranscribeContainer(SubmitResponses)
    \/ \E r \in RunStatusResponses : FixedPollStep(r)
    \/ \E r \in RunListingResponses : GetResultsList(r)
    \/ GetResultsFile(SampleContentResponses)
    \/ GetResultsReturn
    \/ FixedMainSummarize(SummaryResponses)
    \/ FixedMainExcept
    \/ AppMain
    \/ \E r \in FetchResponses : MainLoopFetch(r)
    \/ MainLoopItem(SummaryResponses)
    \/ MainLoopSleep
    \/ MainLoopReturn
    \/ MainLoopInterrupt

SpecRun == InitRun /\ [][NextRun]_vars


----------------------------------------------------------------------------
(* C13 *)

\* a text that is empty or made of whitespace only
IsBlank(t) == t \in {"", " "}

\* C13: summarizing an empty or whitespace-only text issues no request to
\* the summarization service: no request ever carries such a text, and a run
\* whose result mapping is empty sends nothing.
C13_BlankTextIsNotSent ==
    /\ \A i \in 1..Len(sent) : ~IsBlank(sent[i].text)
    /\ (program = "fixed" /\ pc \in {"raised", "exited"} /\ all_transcriptions = << >>)
          => sent = << >>


----------------------------------------------------------------------------
(* C14 *)

\* the answer is a completion: HTTP 200 with the generated text
Completion(a) == a.kind = "Http" /\ a.code = 200 /\ a.content # None

\* the answer is an HTTP response with a non-success status
NonSuccess(a) == a.kind = "Http" /\ a.code # 200

\* the step is a call of summarize_text that passed its settings check
FixedCall ==
    program = "fixed" /\ pc = "returned" /\ pc' # pc /\ OpenAIConfigured(env)

\* the step is process_json_text calling summarize
LoopCall ==
    /\ program = "loop" /\ pc = "items" /\ ji' = ji + 1
    /\ HasText(json_texts[ji].text)

\* C14: a summarization call issues exactly one request; when the answer is
\* not a completion the call fails (summarize_text with "Summarization
\* failed" and the status for a non-success response, summarize by raising
\* into process_json_text, which counts no success) and nothing is sent
\* again; no request is issued outside such a call.
C14_OneRequestPerCall ==
    [][ /\ FixedCall =>
             /\ Len(sent') = Len(sent) + 1
             /\ SubSeq(sent', 1, Len(sent)) = sent
             /\ LET a == sent'[Len(sent')].answer IN
                  /\ Completion(a) => (pc' = "exited" /\ summary' = a.content)
                  /\ ~Completion(a) => (pc' = "raised" /\ summary' = summary)
                  /\ NonSuccess(a) =>
                        /\ error'.type = "Exception"
                        /\ error'.what = "Summarization failed"
                        /\ error'.detail = a.code
        /\ LoopCall =>
             /\ Len(sent') = Len(sent) + 1
             /\ SubSeq(sent', 1, Len(sent)) = sent
             /\ LET a == sent'[Len(sent')].answer IN
                  /\ Completion(a) =>
                        (success_count' = success_count + 1 /\ summary' = a.content)
                  /\ ~Completion(a) =>
                        (success_count' = success_count /\ summary' = summary)
        /\ sent' # sent => (FixedCall \/ LoopCall)
      ]_vars

\* a call of summarize_text met a non-success status and failed
C14_Witness ==
    /\ program = "fixed"
    /\ pc = "raised"
    /\ Len(sent) = 1
    /\ NonSuccess(sent[1].answer)
    /\ error.what = "Summarization failed"


----------------------------------------------------------------------------
(* C15 *)

\* the answer the claim accepts: HTTP 201 with a job location
SubmitOk(r) == r.kind = "Http" /\ r.code = Created /\ r.location # None

\* the submission returned: start_transcription gave its job URL, or
\* transcribe_container went on to poll
SubmissionSucceeded ==
    \/ program = "app" /\ pc = "started"
    \/ program = "fixed" /\ Len(submissions) = 1 /\ (pc = "poll" \/ requests > 0)

\* the submission raised, and no status request followed
SubmissionFailed ==
    Len(submissions) = 1 /\ pc \in {"raised", "exited"} /\ requests = 0

\* the exception carries the HTTP status of the answer
CarriesStatus(r) ==
    /\ error.what \in {"raise_for_status", "Failed to create transcription"}
    /\ error.detail = r.code

\* C15: submission succeeds only on HTTP 201 with a job location; any other
\* HTTP answer makes it fail with an error carrying the status, and no
\* status request is issued.
C15_SubmitNeeds201AndLocation ==
    (program \in {"app", "fixed"} /\ Len(submissions) = 1) =>
        LET r == submissions[1] IN
          /\ SubmissionSucceeded => SubmitOk(r)
          /\ (r.kind = "Http" /\ ~SubmitOk(r)) =>
                (SubmissionFailed /\ CarriesStatus(r))


----------------------------------------------------------------------------
(* C16 *)

\* main_loop was entered and the process is over
ServiceEnded == program = "loop" /\ pc = "exited" /\ cycles > 0

\* the service was cancelled by a keyboard interrupt
Cancelled == error.type = "KeyboardInterrupt"

\* C16: the periodic loop goes from one cycle to the next until it is
\* cancelled: once main_loop runs, the service ends only by cancellation.
C16_LoopRunsUntilCancelled == ServiceEnded => Cancelled


----------------------------------------------------------------------------
(* C17 *)

\* every item of the cycle has been through process_json_text
AllItemsProcessed == ji > Len(json_texts)

\* C17: a keyboard interrupt stops the service only between cycles: when the
\* service has ended, the cycle it started has processed all of its items.
C17_CycleRunsToCompletion == ServiceEnded => AllItemsProcessed


----------------------------------------------------------------------------
(* C18 *)

\* a setting the entry point requires is missing: one of load_config's four
\* variables for app.py main, one of the three that transcribe_container
\* tests for app_fixed.py main
MissingRequired ==
    \/ program = "loop" /\ ~AppConfigured(env)
    \/ program = "fixed" /\ ~SpeechConfigured(env)

\* no request of any kind has been issued (every request of app.py main is
\* issued within a cycle)
NoRemoteRequest ==
    /\ submissions = << >>
    /\ requests = 0
    /\ fetches = << >>
    /\ sent = << >>
    /\ cycles = 0

\* C18: with a required setting missing, the process issues no remote
\* request and ends with a non-zero exit status.
C18_MissingConfigIsFatal ==
    (pc = "exited" /\ MissingRequired) => (NoRemoteRequest /\ exit_code # 0)


----------------------------------------------------------------------------
(* C19 *)

\* the latest status response reports the given terminal status
LastStatusIs(s) == last.kind = "Json" /\ last.status = s

\* the stage order of app_fixed.py main, step by step: each stage is entered
\* from the one before it only, a failed run goes to its end and issues
\* nothing more, and each request is issued by its own stage
StageOrder ==
    /\ pc' = "poll" =>
          /\ pc \in {"start", "poll"}
          /\ Len(submissions') = 1
          /\ SubmitOk(submissions'[1])
    /\ pc' = "get_results" =>
          (pc \in {"poll", "get_results"} /\ LastStatusIs("Succeeded")')
    /\ pc' = "files" => pc \in {"get_results", "files"}
    /\ pc' = "returned" => pc \in {"files", "returned"}
    /\ submissions' # submissions => (pc = "start" /\ submissions = << >>)
    /\ requests' # requests => pc = "poll"
    /\ fetches' # fetches => pc = "files"
    /\ sent' # sent =>
          /\ pc = "returned"
          /\ sent = << >>
          /\ LastStatusIs("Succeeded")
          /\ fi > Len(files)
    /\ pc \in {"raised", "exited"} =>
          /\ pc' = "exited"
          /\ submissions' = submissions
          /\ requests' = requests
          /\ fetches' = fetches
          /\ sent' = sent

\* a stage before summarization has failed: the submission, the job, or the
\* listing and extraction
EarlierStageFailed ==
    \/ Len(submissions) = 1 /\ ~SubmitOk(submissions[1])
    \/ LastStatusIs("Failed")
    \/ error.what \in {"Failed to get results", "requests.get", "display"}

\* C19: in the container pipeline the stages run in the order submit, poll,
\* list/extract, summarize: a summarization request is issued only after a
\* Succeeded status and the processed listing, never when an earlier stage
\* has failed, and a run issues at most one submission request.
C19_StagesRunInOrder ==
    /\ [][program = "fixed" => StageOrder]_vars
    /\ [](program = "fixed" =>
            /\ Len(submissions) <= 1
            /\ Len(sent) <= 1
            /\ sent # << >> =>
                  (SubmitOk(submissions[1]) /\ LastStatusIs("Succeeded"))
            /\ EarlierStageFailed => sent = << >>)

\* a run went through every stage and its summarization request was answered
\* with a summary
C19_Witness ==
    /\ program = "fixed"
    /\ pc = "exited"
    /\ Len(submissions) = 1
    /\ requests > 1
    /\ fetches # << >>
    /\ Len(sent) = 1
    /\ summary = "summary"


----------------------------------------------------------------------------
(* C20 *)

\* the step processes a Transcription file whose content was fetched and
\* holds recognizedPhrases, and goes on to the next file
StoresFile ==
    /\ program = "fixed"
    /\ pc = "files"
    /\ fi' = fi + 1
    /\ Fetches(files[fi])
    /\ results_response'.kind = "Json"
    /\ results_response'.doc.hasPhrases

\* C20: every successfully fetched, well-formed Transcription file adds one
\* entry of its own, name and text, after the entries of the files listed
\* before it, and the text sent to summarization is the concatenation of the
\* entries of the mapping, each prefixed with its name.
C20_EveryFileContributes ==
    [][ /\ StoresFile =>
             all_transcriptions' =
                Append(all_transcriptions,
                       [name |-> FileName(files[fi]),
                        text |-> ExtractText(results_response'.doc)])
        /\ (program = "fixed" /\ sent' # sent) =>
             sent'[Len(sent')].text = CombinedText(all_transcriptions)
      ]_vars


----------------------------------------------------------------------------
(* C21 *)

\* the items of the cycle that have been through process_json_text
Processed == SubSeq(json_texts, 1, ji - 1)

\* the texts of those among them whose text is not empty, in order
NonEmptyTexts ==
    LET s == SelectSeq(Processed, LAMBDA i : i.text # "")
    IN  [k \in 1..Len(s) |-> s[k].text]

\* the texts of the summarization requests issued, in order
SentTexts == [k \in 1..Len(sent) |-> sent[k].text]

\* how many summarization requests were answered with a summary
Summarized == Cardinality({k \in 1..Len(sent) : Completion(sent[k].answer)})

\* the step is process_json_text applied to the next item
ProcessesItem == program = "loop" /\ pc = "items" /\ ji' # ji

\* C21: within a cycle, items are processed independently.  The requests
\* issued are exactly those of the processed items with a non-empty text,
\* whatever happened to the items before them; success_count is the number
\* of them that were answered with a summary, between 0 and the number of
\* items; each call of process_json_text returns to the loop, which goes on
\* to the next item; and the cycle reaches its sleep only with every item
\* processed.
C21_ItemsAreIndependent ==
    /\ [](program = "loop" =>
            /\ SentTexts = NonEmptyTexts
            /\ success_count = Summarized
            /\ success_count >= 0
            /\ success_count <= Len(json_texts)
            /\ pc = "sleep" => ji = Len(json_texts) + 1
            /\ (pc = "items" /\ ji <= Len(json_texts)) =>
                  ENABLED MainLoopItem(SummaryResponses))
    /\ [][ProcessesItem =>
            /\ pc' = "items"
            /\ ji' = ji + 1
            /\ error' = error
            /\ exit_code' = exit_code
            /\ json_texts' = json_texts]_vars

\* a cycle of two items: the summarization of the first failed, the second
\* was summarized
C21_Witness ==
    /\ program = "loop"
    /\ pc = "sleep"
    /\ Len(json_texts) = 2
    /\ Len(sent) = 2
    /\ ~Completion(sent[1].answer)
    /\ Completion(sent[2].answer)
    /\ success_count = 1


----------------------------------------------------------------------------
(* C22 *)

\* the latest status response is Succeeded without a transcription results URL
SucceededWithoutUrl ==
    Answered /\ last.kind = "Json" /\ last.status = "Succeeded" /\ last.url = None

\* C22: in app.py poll_transcription a Succeeded response without a results
\* URL is terminal: the poll has raised its ValueError, which is not the
\* timeout; no further status request can be issued; the response was
\* followed by no sleep and counted as no attempt, so only the requests
\* before it were slept after and counted.
C22_SucceededWithoutUrlIsTerminal ==
    (program = "app" /\ SucceededWithoutUrl) =>
        /\ pc = "raised"
        /\ error.type = "ValueError"
        /\ error.what = "No transcript URL in successful response"
        /\ ~IsTimeout
        /\ result = None
        /\ ~CanRequest
        /\ ~ENABLED AppPollTimeout
        /\ sleeps = requests - 1
        /\ waited = (requests - 1) * poll_interval
        /\ attempts = requests - 1
        /\ observed[Len(observed)] = "Succeeded"

\* the second status response was Succeeded without a URL, with attempts
\* still left
C22_Witness ==
    /\ program = "app"
    /\ SucceededWithoutUrl
    /\ pc = "raised"
    /\ requests = 2
    /\ attempts + 1 < max_poll_attempts

====
